---- MODULE Spec2Model ----
(***************************************************************************)
(* Octra wallet extension: the wallet-access gate (WalletManager), the two *)
(* user-facing surfaces (PopupApp in the popup, App in the tab), the       *)
(* store-backed pending requests and the page-side SDK.                    *)
(*                                                                         *)
(* One shared key/value store is read and written by every context.  A     *)
(* surface is a window running PopupApp or App with its own React state.   *)
(***************************************************************************)
EXTENDS Integers, Sequences, FiniteSets, TLC

\* ------------------------------------------------------------------ bounds
\* Page requests submitted in one run (request ids are 1..MaxRequests).
MaxRequests == 2
\* Longest wallet list a surface builds with addWallet.
MaxWallets == 2
\* Windows that can be open at the same time.
MaxSurfaces == 2
\* Messages and close events background has not handled yet.
MaxChan == 2

Surfaces == 1..MaxSurfaces
Addresses == {"oct1", "oct2"}
Passwords == {"pw", "wrong"}
Origins == {"dappA", "dappB"}

\* ------------------------------------------------------------ store values
\* A stored value is null, a plain string, or the JSON text of a value.
Null == [t |-> "null"]
Str(x) == [t |-> "str", s |-> x]
\* JSON.stringify(v): a string whose JSON.parse is v.
Json(v) == [t |-> "json", j |-> v]
\* A string that JSON.parse rejects.
Garbage == Str("garbage")

\* JavaScript truthiness of a stored value: null and "" are falsy.
Truthy(x) == x # Null /\ x # Str("")

\* JSON.parse(s): throws (ok = FALSE) unless s is JSON text.
JsonParse(x) ==
  IF x.t = "json" THEN [ok |-> TRUE, v |-> x.j] ELSE [ok |-> FALSE, v |-> <<>>]

Keys ==
  {"walletPasswordHash", "walletPasswordSalt", "encryptedWallets", "wallets",
   "activeWalletId", "isWalletLocked", "pendingConnectionRequest",
   "pendingContractRequest"}

\* ExtensionStorageManager / localStorage: independent single-key operations.
Get(st, k) == st[k]
Set(st, k, v) == [st EXCEPT ![k] = v]
Remove(st, k) == [st EXCEPT ![k] = Null]

EmptyStore == [k \in Keys |-> Null]

\* ----------------------------------------------------------------- wallets
Wallet(a) == [address |-> a, privateKey |-> "key_" \o a]
NoWallet == [address |-> "none", privateKey |-> "none"]
AllWallets == {Wallet(a) : a \in Addresses}

\* encryptWalletData(JSON.stringify(w), password)
Encrypted(text, password) == [c |-> "enc", key |-> password, text |-> text]
\* The unencrypted placeholder App.addWallet stores as encryptedData.
Placeholder(text) == [c |-> "raw", key |-> "none", text |-> text]

\* decryptWalletData(data, password): throws unless data is ciphertext made
\* with this password.
DecryptWalletData(data, password) ==
  IF data.c = "enc" /\ data.key = password
  THEN [ok |-> TRUE, text |-> data.text]
  ELSE [ok |-> FALSE, text |-> Null]

HashPassword(p) == Str("hash_" \o p)
\* verifyPassword(password, hashedPassword, salt)
VerifyPassword(password, hashedPassword, salt) ==
  hashedPassword = HashPassword(password)

\* A stored record of encryptedWallets.
GoodRecord(a) ==
  [address |-> a, encryptedData |-> Encrypted(Json(Wallet(a)), "pw")]
\* Ciphertext that decrypts to text that is not JSON.
BadJsonRecord(a) == [address |-> a, encryptedData |-> Encrypted(Garbage, "pw")]
\* Ciphertext made with another key: decryption throws.
BadKeyRecord(a) ==
  [address |-> a, encryptedData |-> Encrypted(Json(Wallet(a)), "other")]

\* ------------------------------------------------------------ WalletManager
\* The for-loop of unlockWallets: each record is decrypted and parsed on its
\* own; a failure drops that record and the loop goes on.
RECURSIVE DecryptEach(_, _)
DecryptEach(records, password) ==
  IF records = <<>> THEN <<>>
  ELSE LET d == DecryptWalletData(Head(records).encryptedData, password)
           p == IF d.ok THEN JsonParse(d.text) ELSE [ok |-> FALSE, v |-> <<>>]
           rest == DecryptEach(Tail(records), password)
       IN IF p.ok THEN <<p.v>> \o rest ELSE rest

\* An unlock that gives up the whole list when one record fails.
DecryptedWalletsAllOrNothing(st, password) ==
  LET e == Get(st, "encryptedWallets")
      parsed == JsonParse(e)
      all == DecryptEach(parsed.v, password)
  IN IF Truthy(e) /\ parsed.ok /\ Len(all) = Len(parsed.v) THEN all ELSE <<>>

\* encryptedWallets -> decryptedWallets; a value that does not parse leaves
\* the list empty.
DecryptedWallets(st, password) ==
  LET e == Get(st, "encryptedWallets")
      parsed == JsonParse(e)
  IN IF Truthy(e) /\ parsed.ok THEN DecryptEach(parsed.v, password) ELSE <<>>

\* The writes of a successful unlockWallets.
UnlockWrites(st, decrypted) ==
  LET s1 == Set(st, "wallets", Json(decrypted))
      s2 == Set(s1, "isWalletLocked", Str("false"))
  IN IF Len(decrypted) > 0 /\ ~Truthy(Get(s2, "activeWalletId"))
     THEN Set(s2, "activeWalletId", Str(decrypted[1].address))
     ELSE s2

\* An unlock that writes before it verifies the password.
UnlockWalletsWritingFirst(st, password) ==
  LET decrypted == DecryptedWallets(st, password)
      written == UnlockWrites(st, decrypted)
  IN IF VerifyPassword(password, Get(st, "walletPasswordHash"),
                       Get(st, "walletPasswordSalt"))
     THEN [ok |-> TRUE, error |-> "", wallets |-> decrypted, store |-> written]
     ELSE [ok |-> FALSE, error |-> "Invalid password", wallets |-> <<>>,
           store |-> written]

\* An unlock that rethrows the parse error of encryptedWallets.
UnlockWalletsThrowingOnParse(st, password) ==
  LET hashedPassword == Get(st, "walletPasswordHash")
      salt == Get(st, "walletPasswordSalt")
      e == Get(st, "encryptedWallets")
      decrypted == DecryptedWallets(st, password)
  IN IF ~Truthy(hashedPassword) \/ ~Truthy(salt)
     THEN [ok |-> FALSE, error |-> "No password set", wallets |-> <<>>,
           store |-> st]
     ELSE IF ~VerifyPassword(password, hashedPassword, salt)
     THEN [ok |-> FALSE, error |-> "Invalid password", wallets |-> <<>>,
           store |-> st]
     ELSE IF Truthy(e) /\ ~JsonParse(e).ok
     THEN [ok |-> FALSE, error |-> "Failed to parse encrypted wallets",
           wallets |-> <<>>, store |-> st]
     ELSE [ok |-> TRUE, error |-> "", wallets |-> decrypted,
           store |-> UnlockWrites(st, decrypted)]

\* WalletManager.unlockWallets(password): the error thrown, or the list
\* returned and the store it leaves.
UnlockWallets(st, password) ==
  LET hashedPassword == Get(st, "walletPasswordHash")
      salt == Get(st, "walletPasswordSalt")
  IN IF ~Truthy(hashedPassword) \/ ~Truthy(salt)
     THEN [ok |-> FALSE, error |-> "No password set", wallets |-> <<>>,
           store |-> st]
     ELSE IF ~VerifyPassword(password, hashedPassword, salt)
     THEN [ok |-> FALSE, error |-> "Invalid password", wallets |-> <<>>,
           store |-> st]
     ELSE LET decrypted == DecryptedWallets(st, password)
          IN [ok |-> TRUE, error |-> "", wallets |-> decrypted,
              store |-> UnlockWrites(st, decrypted)]

\* A lock that keeps the active-wallet pointer.
LockWalletsKeepingActive(st) ==
  Set(Remove(st, "wallets"), "isWalletLocked", Str("true"))

\* WalletManager.lockWallets()
LockWallets(st) ==
  Set(Remove(Remove(st, "wallets"), "activeWalletId"), "isWalletLocked",
      Str("true"))

\* WalletManager.isWalletSetup()
IsWalletSetup(st) == Truthy(Get(st, "walletPasswordHash"))

\* A gate that looks at the lock flag only.
ShouldShowUnlockScreenFlagOnly(st) ==
  Truthy(Get(st, "walletPasswordHash")) /\ Get(st, "isWalletLocked") # Str("false")

\* WalletManager.shouldShowUnlockScreen()
ShouldShowUnlockScreen(st) ==
  LET hasPassword == Get(st, "walletPasswordHash")
      isLocked == Get(st, "isWalletLocked")
      hasWallets == Get(st, "wallets")
  IN IF ~Truthy(hasPassword) THEN FALSE
     ELSE isLocked # Str("false") \/ ~Truthy(hasWallets)

\* WalletManager.isWalletLocked()
IsWalletLocked(st) ==
  LET hasPassword == Get(st, "walletPasswordHash")
      isLocked == Get(st, "isWalletLocked")
  IN IF ~Truthy(hasPassword) THEN FALSE ELSE isLocked # Str("false")

\* ---------------------------------------------------------------- requests
Kinds == {"connection", "view", "call"}
\* The store key a request of this kind is kept under: one key per tag.
KeyOf(kind) ==
  IF kind = "connection" THEN "pendingConnectionRequest"
  ELSE "pendingContractRequest"

NoReq == [id |-> 0, origin |-> "none", kind |-> "none"]
Request(id, origin, kind) == [id |-> id, origin |-> origin, kind |-> kind]

\* What DAppRequestHandler hands to onApprove: "" stands for a missing field.
ContractResults ==
  {[txHash |-> "abc123", hash |-> ""], [txHash |-> "", hash |-> "def456"]}

\* ---------------------------------------------------------------- surfaces
\* React state of a window. phase: closed, loading (isLoading, the mount
\* effect has not run), ready. unlockError is the error UnlockWallet shows
\* after a failed unlock. openedFor is the id of the request background
\* opened the window for (0: none). url is the connection request in the
\* window's URL parameters (App reads them). seen is history: the store as it
\* was when a mount in progress read the gate. event is the new value of
\* isWalletLocked in a storage event that the window has not received yet
\* ("none": no event waiting). opener and mountContract are history:
\* who opened the window, and the id of the contract request in the store
\* when the mount effect ran.
ClosedSurface ==
  [app |-> "none", window |-> "none", phase |-> "closed", opener |-> "none",
   wallet |-> NoWallet, wallets |-> <<>>, isLocked |-> FALSE,
   connectionRequest |-> NoReq, contractRequest |-> NoReq,
   unlockError |-> "", mountContract |-> 0, openedFor |-> 0, url |-> NoReq,
   seen |-> EmptyStore, event |-> "none"]

\* useState initial values of a new window running `app`.
NewSurface(app, window, opener, id) ==
  [ClosedSurface EXCEPT !.app = app, !.window = window, !.phase = "loading",
                        !.opener = opener, !.openedFor = id]

VARIABLES
  store,     \* the shared store: key -> value
  surf,      \* surface -> React state
  chan,      \* messages and window-close events on their way to background
  awaiting,  \* background: ids of the requests whose promise is not settled
  promise,   \* page: request id -> the SDK promise of that request
  nextId,    \* page: number of requests submitted so far
  sdk        \* page: the OctraSDK instance and its last call

vars == <<store, surf, chan, awaiting, promise, nextId, sdk>>

MinOf(S) == CHOOSE x \in S : \A y \in S : x <= y

\* wallets.find(w => w.address === address)
FindWallet(ws, address) ==
  LET I == {i \in 1..Len(ws) : ws[i].address = address}
  IN IF I = {} THEN NoWallet ELSE ws[MinOf(I)]

\* The active wallet of a loaded list: the first one, or the one the stored
\* activeWalletId names when it is in the list.
SelectActive(ws, activeWalletId) ==
  IF Len(ws) = 0 THEN NoWallet
  ELSE IF Truthy(activeWalletId)
          /\ FindWallet(ws, activeWalletId.s) # NoWallet
       THEN FindWallet(ws, activeWalletId.s)
       ELSE ws[1]

\* The stored wallet list as loadInitialData / checkWalletStatus parse it.
StoredWallets(st) ==
  LET w == Get(st, "wallets")
      parsed == JsonParse(w)
  IN IF Truthy(w) /\ parsed.ok THEN parsed.v ELSE <<>>

\* The pending request under a key as the mount effect reads it.
PendingOf(st, key) ==
  LET p == Get(st, key)
      parsed == JsonParse(p)
  IN IF Truthy(p) /\ parsed.ok THEN parsed.v ELSE NoReq

\* A pending entry that does not parse is removed at mount.
\* A mount that leaves an unparsable entry in the store.
KeepUnparsable(st, key) == st

DropUnparsable(st, key) ==
  LET p == Get(st, key)
  IN IF Truthy(p) /\ ~JsonParse(p).ok THEN Remove(st, key) ELSE st

\* A render that looks at the contract request first.
PopupScreenContractFirst(u) ==
  IF u.phase = "loading" THEN "Loading"
  ELSE IF u.contractRequest # NoReq THEN "ContractApproval"
  ELSE IF u.connectionRequest # NoReq THEN "ConnectionApproval"
  ELSE IF u.isLocked THEN "Unlock"
  ELSE IF u.wallet = NoWallet THEN "Welcome"
  ELSE "Dashboard"

\* PopupApp's render: the screen its state selects.
PopupScreen(u) ==
  IF u.phase = "loading" THEN "Loading"
  ELSE IF u.connectionRequest # NoReq THEN "ConnectionApproval"
  ELSE IF u.contractRequest # NoReq THEN "ContractApproval"
  ELSE IF u.isLocked THEN "Unlock"
  ELSE IF u.wallet = NoWallet THEN "Welcome"
  ELSE "Dashboard"

\* App's render.
AppScreen(u) ==
  IF u.connectionRequest # NoReq /\ u.wallet # NoWallet /\ ~u.isLocked
  THEN "ConnectionApproval"
  ELSE IF u.isLocked THEN "Unlock"
  ELSE IF u.wallet = NoWallet THEN "Welcome"
  ELSE "Dashboard"

Screen(u) ==
  IF u.phase = "closed" THEN "Closed"
  ELSE IF u.app = "PopupApp" THEN PopupScreen(u)
  ELSE AppScreen(u)

\* PopupApp's mount effect, loadInitialData.
PopupLoadInitialData(u, st) ==
  LET conn == PendingOf(st, "pendingConnectionRequest")
      st1 == DropUnparsable(st, "pendingConnectionRequest")
      contract == PendingOf(st1, "pendingContractRequest")
      st2 == DropUnparsable(st1, "pendingContractRequest")
      u1 == [u EXCEPT !.phase = "ready", !.connectionRequest = conn,
                      !.contractRequest = contract,
                      !.mountContract = contract.id]
      ws == StoredWallets(st2)
  IN IF ShouldShowUnlockScreen(st2)
     THEN [u |-> [u1 EXCEPT !.isLocked = TRUE], store |-> st2]
     ELSE [u |-> [u1 EXCEPT !.wallets = ws,
                            !.wallet = SelectActive(ws, Get(st2, "activeWalletId")),
                            !.isLocked = FALSE],
           store |-> st2]

\* PopupApp.loadInitialData up to its return on a gated store: the pending
\* entries and shouldShowUnlockScreen are read; on an open gate the handler
\* goes on to its next await, the read of wallets and activeWalletId.
PopupLoadGate(u, st) ==
  LET r == PopupLoadInitialData(u, st)
  IN IF r.u.isLocked THEN r
     ELSE [u |-> [u EXCEPT !.phase = "loadingWallets",
                           !.connectionRequest = r.u.connectionRequest,
                           !.contractRequest = r.u.contractRequest,
                           !.mountContract = r.u.mountContract,
                           !.seen = st],
           store |-> r.store]

\* PopupApp.loadInitialData from the read of wallets and activeWalletId on.
PopupLoadWallets(u, st) ==
  LET ws == StoredWallets(st)
  IN [u EXCEPT !.phase = "ready", !.wallets = ws,
               !.wallet = SelectActive(ws, Get(st, "activeWalletId")),
               !.isLocked = FALSE, !.seen = EmptyStore]

\* App's mount effects: the URL parameters (urlRequest is NoReq for a URL
\* without action=connect), then checkWalletStatus.
AppCheckWalletStatus(u, st, urlRequest) ==
  LET walletLocked == Get(st, "isWalletLocked")
      hasPassword == Get(st, "walletPasswordHash")
      u1 == [u EXCEPT !.phase = "ready", !.connectionRequest = urlRequest,
                      !.mountContract =
                        PendingOf(st, "pendingContractRequest").id]
      w == Get(st, "wallets")
      parsed == JsonParse(w)
  IN IF Truthy(hasPassword) /\ walletLocked # Str("false")
     THEN [u1 EXCEPT !.isLocked = TRUE]
     ELSE IF Truthy(w) /\ parsed.ok
     THEN [u1 EXCEPT !.wallets = parsed.v,
                     !.wallet = IF Len(parsed.v) > 0
                                THEN SelectActive(parsed.v, Get(st, "activeWalletId"))
                                ELSE u1.wallet]
     ELSE u1

\* PopupApp.handleUnlock(unlockedWallets)
PopupHandleUnlock(u, unlockedWallets) ==
  [u EXCEPT !.wallets = unlockedWallets, !.isLocked = FALSE,
            !.unlockError = "",
            !.wallet = IF Len(unlockedWallets) > 0 THEN unlockedWallets[1]
                       ELSE u.wallet]

\* App.handleUnlock(unlockedWallets)
AppHandleUnlock(u, unlockedWallets, st) ==
  [u EXCEPT !.wallets = unlockedWallets, !.isLocked = FALSE,
            !.unlockError = "",
            !.wallet = IF Len(unlockedWallets) > 0
                       THEN SelectActive(unlockedWallets, Get(st, "activeWalletId"))
                       ELSE u.wallet]

\* ------------------------------------------------------- PopupApp handlers
\* PopupApp.addWallet(newWallet)
PopupAddWallet(u, st, newWallet) ==
  LET updated == Append(u.wallets, newWallet)
  IN [u |-> [u EXCEPT !.wallets = updated, !.wallet = newWallet],
      store |-> Set(Set(st, "wallets", Json(updated)), "activeWalletId",
                    Str(newWallet.address))]

\* PopupApp.switchWallet(selectedWallet)
PopupSwitchWallet(u, st, selectedWallet) ==
  [u |-> [u EXCEPT !.wallet = selectedWallet],
   store |-> Set(st, "activeWalletId", Str(selectedWallet.address))]

\* wallets.filter(w => w.address !== address)
WithoutAddress(ws, address) ==
  SelectSeq(ws, LAMBDA w : w.address # address)

\* PopupApp.removeWallet(walletToRemove)
PopupRemoveWallet(u, st, walletToRemove) ==
  LET updated == WithoutAddress(u.wallets, walletToRemove.address)
      last == u.wallet.address = walletToRemove.address /\ Len(updated) = 0
      st1 == Set(st, "wallets", Json(updated))
  IN [u |-> [u EXCEPT !.wallets = updated,
                      !.wallet = IF last THEN NoWallet ELSE u.wallet],
      store |-> IF last THEN Remove(st1, "activeWalletId") ELSE st1]

\* PopupApp.disconnectWallet()
PopupDisconnectWallet(u, st) ==
  [u |-> [u EXCEPT !.wallet = NoWallet, !.wallets = <<>>, !.isLocked = TRUE],
   store |-> LockWallets(st)]

NoResult == [txHash |-> "", hash |-> ""]
Message(type, origin, approved, address, result, error) ==
  [type |-> type, origin |-> origin, approved |-> approved,
   address |-> address, result |-> result, error |-> error, id |-> 0]
\* The host's event for a closed window that was opened for request id.
Closed(id) ==
  [type |-> "CLOSED", origin |-> "none", approved |-> FALSE,
   address |-> "none", result |-> NoResult, error |-> "", id |-> id]

\* PopupApp.handleConnectionApprove(selectedWallet): the message sent and
\* the store after the pending entry is removed.
HandleConnectionApprove(u, st, selectedWallet) ==
  [msg |-> Message("CONNECTION_RESULT", u.connectionRequest.origin, TRUE,
                   selectedWallet.address, NoResult, ""),
   store |-> Remove(st, "pendingConnectionRequest")]

\* PopupApp.handleConnectionReject()
HandleConnectionReject(u, st) ==
  [msg |-> Message("CONNECTION_RESULT", u.connectionRequest.origin, FALSE,
                   "none", NoResult, ""),
   store |-> Remove(st, "pendingConnectionRequest")]

\* PopupApp.handleContractApprove(result)
HandleContractApprove(u, st, result) ==
  [msg |-> Message("CONTRACT_RESULT", u.contractRequest.origin, TRUE, "none",
                   result, ""),
   store |-> Remove(st, "pendingContractRequest")]

\* PopupApp.handleContractReject(error)
HandleContractReject(u, st, error) ==
  [msg |-> Message("CONTRACT_RESULT", u.contractRequest.origin, FALSE, "none",
                   NoResult, error),
   store |-> Remove(st, "pendingContractRequest")]

\* App's ConnectionApproval onApprove(approved, selectedAddress): the message
\* sent; the store is not touched.
AppOnApprove(u, st, approved) ==
  [msg |-> Message("CONNECTION_RESULT", u.connectionRequest.origin, approved,
                   IF approved THEN u.wallet.address ELSE "none", NoResult, ""),
   store |-> st]

\* ------------------------------------------------------------ App handlers
\* App.addWallet(newWallet)
AppAddWallet(u, st, newWallet) ==
  LET existing == FindWallet(u.wallets, newWallet.address)
      updated == Append(u.wallets, newWallet)
      st1 == Set(Set(st, "wallets", Json(updated)), "activeWalletId",
                 Str(newWallet.address))
      e == Get(st1, "encryptedWallets")
      stored == IF Truthy(e) THEN JsonParse(e).v ELSE <<>>
      walletExists ==
        \E i \in 1..Len(stored) : stored[i].address = newWallet.address
      entry == [address |-> newWallet.address,
                encryptedData |-> Placeholder(Json(newWallet))]
  IN IF existing # NoWallet
     THEN [u |-> [u EXCEPT !.wallet = existing],
           store |-> Set(st, "activeWalletId", Str(existing.address))]
     ELSE [u |-> [u EXCEPT !.wallets = updated, !.wallet = newWallet],
           store |-> IF /\ Truthy(Get(st1, "walletPasswordHash"))
                        /\ (Truthy(e) => JsonParse(e).ok)
                        /\ ~walletExists
                     THEN Set(st1, "encryptedWallets",
                              Json(Append(stored, entry)))
                     ELSE st1]

\* App.handleStorageChange(e) for e.key = 'isWalletLocked': a lock clears the
\* wallet state; an unlock reloads wallets and activeWalletId from the store
\* (the 100 ms timer is taken together with the event).
AppHandleStorageChange(u, st, newValue) ==
  LET w == Get(st, "wallets")
      parsed == JsonParse(w)
  IN IF newValue = "true"
     THEN [u EXCEPT !.isLocked = TRUE, !.wallet = NoWallet, !.wallets = <<>>,
                    !.event = "none"]
     ELSE IF Truthy(w) /\ parsed.ok
     THEN [u EXCEPT !.isLocked = FALSE, !.wallets = parsed.v,
                    !.wallet = IF Len(parsed.v) > 0
                               THEN SelectActive(parsed.v, Get(st, "activeWalletId"))
                               ELSE u.wallet,
                    !.event = "none"]
     ELSE [u EXCEPT !.isLocked = FALSE, !.event = "none"]

\* App.switchWallet(selectedWallet)
AppSwitchWallet(u, st, selectedWallet) ==
  [u |-> [u EXCEPT !.wallet = selectedWallet],
   store |-> Set(st, "activeWalletId", Str(selectedWallet.address))]

\* App.removeWallet(walletToRemove)
AppRemoveWallet(u, st, walletToRemove) ==
  LET updated == WithoutAddress(u.wallets, walletToRemove.address)
      last == u.wallet.address = walletToRemove.address /\ Len(updated) = 0
      st1 == Set(st, "wallets", Json(updated))
  IN [u |-> [u EXCEPT !.wallets = updated,
                      !.wallet = IF last THEN NoWallet ELSE u.wallet],
      store |-> IF last THEN Remove(st1, "activeWalletId") ELSE st1]

\* App.disconnectWallet()
AppDisconnectWallet(u, st) ==
  [u |-> [u EXCEPT !.wallet = NoWallet, !.wallets = <<>>, !.isLocked = TRUE],
   store |-> Remove(Remove(Set(st, "isWalletLocked", Str("true")), "wallets"),
                    "activeWalletId")]

\* --------------------------------------------------------------- the SDK
\* a || b on strings
OrElse(a, b) == IF a # "" THEN a ELSE b

\* What provider.connect / provider.callContractMethod settle with.
Outcome(ok, address, result, message) ==
  [ok |-> ok, address |-> address, result |-> result, message |-> message]

\* OctraSDK.connect after the provider settled (appName: the page's host).
SdkConnect(req, out) ==
  IF out.ok
  THEN [state |-> "resolved",
        value |-> [success |-> TRUE, address |-> out.address,
                   appName |-> req.origin]]
  ELSE [state |-> "rejected",
        value |-> [error |-> OrElse(out.message, "Connection failed")]]

\* OctraSDK.viewCall after the provider settled.
SdkViewCall(out) ==
  IF out.ok
  THEN [state |-> "resolved",
        value |-> [success |-> TRUE, result |-> out.result, type |-> "view"]]
  ELSE [state |-> "rejected",
        value |-> [error |-> OrElse(out.message, "View call failed")]]

\* OctraSDK.callContract after the provider settled.
SdkCallContract(out) ==
  IF out.ok
  THEN [state |-> "resolved",
        value |-> [success |-> TRUE,
                   txHash |-> OrElse(out.result.txHash, out.result.hash),
                   type |-> "call"]]
  ELSE [state |-> "rejected",
        value |-> [error |-> OrElse(out.message, "Contract call failed")]]

SdkSettle(req, out) ==
  IF req.kind = "connection" THEN SdkConnect(req, out)
  ELSE IF req.kind = "view" THEN SdkViewCall(out)
  ELSE SdkCallContract(out)

NoValue == [none |-> TRUE]
\* approved and closed are history: the result a surface approved the request
\* with, and whether the window opened for it was closed without a decision,
\* each while the request was the stored one of its kind.
NoPromise ==
  [req |-> NoReq, state |-> "none", value |-> NoValue, n |-> 0,
   approved |-> NoResult, closed |-> FALSE]

\* The bridge hands an outcome to the promise of a request; n counts the
\* outcomes handed to it.
Settle(pr, out) ==
  LET r == SdkSettle(pr.req, out)
  IN IF pr.state = "pending"
     THEN [pr EXCEPT !.state = r.state, !.value = r.value, !.n = @ + 1]
     ELSE [pr EXCEPT !.n = @ + 1]

\* ------------------------------------------------- background (Registry)
\* Contract requests sent to the expanded view in a tab.
SurfaceForTab(kind) == IF kind = "connection" THEN "popup" ELSE "tab"
\* The surface a request of this kind is shown in.
SurfaceFor(kind) == "popup"

\* submit(kind, payload): a conflict when the kind's key is occupied.
SubmitConflict(st, kind) == Truthy(Get(st, KeyOf(kind)))

\* A submit that replaces the stored request.
SubmitOverwriting(st, req) == Set(st, KeyOf(req.kind), Json(req))
\* submit: the store after the request is persisted under its kind's key.
Submit(st, req) ==
  IF SubmitConflict(st, req.kind) THEN st
  ELSE Set(st, KeyOf(req.kind), Json(req))

\* resolve(id, outcome): clears the entry holding request id, if any.
Resolve(st, id) ==
  LET conn == PendingOf(st, "pendingConnectionRequest")
      contract == PendingOf(st, "pendingContractRequest")
      st1 == IF conn.id = id THEN Remove(st, "pendingConnectionRequest") ELSE st
  IN IF contract.id = id THEN Remove(st1, "pendingContractRequest") ELSE st1

\* The awaiting request a result message is for: same key, same origin.
ResultTarget(msg, waiting, pr) ==
  LET key == IF msg.type = "CONNECTION_RESULT" THEN "pendingConnectionRequest"
             ELSE "pendingContractRequest"
      C == {i \in waiting :
              KeyOf(pr[i].req.kind) = key /\ pr[i].req.origin = msg.origin}
  IN IF C = {} THEN 0 ELSE MinOf(C)

\* What the provider's promise settles with for a result message.
ResultOutcome(msg) ==
  IF msg.approved THEN Outcome(TRUE, msg.address, msg.result, "")
  ELSE Outcome(FALSE, "none", NoResult, OrElse(msg.error, "User rejected request"))

\* The close event of a window opened for request id: the request is
\* abandoned if it is still awaiting, else nothing happens.
Abandons(id, waiting) == id \in waiting

\* -------------------------------------------------------------------- Init
\* The encryptedWallets entries an installed wallet starts with: absent, not
\* parsable, or a list of records some of which do not decrypt or parse.
StoredRecords == {GoodRecord("oct1"), GoodRecord("oct2"), BadKeyRecord("oct1"),
                  BadJsonRecord("oct2")}
InitialEncrypted ==
  {Null, Garbage, Json(<<>>)}
    \cup {Json(<<r>>) : r \in StoredRecords}
    \cup {Json(p) : p \in {q \in StoredRecords \X StoredRecords :
                                q[1].address # q[2].address}}

\* A set-up, locked wallet with password "pw".
SetUpStore(enc) ==
  [EmptyStore EXCEPT !["walletPasswordHash"] = HashPassword("pw"),
                     !["walletPasswordSalt"] = Str("salt"),
                     !["encryptedWallets"] = enc,
                     !["isWalletLocked"] = Str("true")]

\* Everything but the store, as it is before any window is opened.
\* -------------------------------------------------------------- OctraSDK
\* A call made without an options argument.
Undefined == [undefined |-> TRUE]

ContractOptions ==
  {Undefined} \cup [contractAddress : {"", "octC"}, methodName : {"", "get"}]

TxOptions == {Undefined} \cup [to : {"", "oct2"}, amount : {0, 5}]

\* What the provider answers to a connect and to the other methods.
ConnectOutcomes ==
  {Outcome(TRUE, a, NoResult, "") : a \in {"oct1", "oct2"}}
    \cup {Outcome(FALSE, "none", NoResult, m) : m \in {"User rejected request", ""}}

ProviderOutcomes(results) ==
  {Outcome(TRUE, "none", r, "") : r \in results}
    \cup {Outcome(FALSE, "none", NoResult, m) : m \in {"User rejected request", ""}}

CallOutcomes == ProviderOutcomes(ContractResults)
BalanceOutcomes == ProviderOutcomes({[balance |-> "10"], [balance |-> ""]})
SignOutcomes == ProviderOutcomes({[signature |-> "sig"], [signature |-> ""]})

NoOutcome == Outcome(FALSE, "none", NoResult, "")

\* The last SDK call: its arguments, the provider method it invoked ("none":
\* the provider was not called), the provider's answer, and how the promise
\* settled.
NoCall ==
  [method |-> "none", options |-> Undefined, invoked |-> "none",
   out |-> NoOutcome, state |-> "none", value |-> NoValue]

\* new OctraSDK() after initializeProvider: provider is whether window.octra
\* was detected.
\* octra: window.octra is defined. waitForProvider: "null" (never created),
\* "pending", or the value it resolved with. listening: the octraLoaded
\* listener is attached. timer: the 3-second timeout is armed. inflight: the
\* methods whose provider call has not settled. available: what the last
\* settled isAvailable() returned. sawOctra and quiet are history: window.octra
\* was defined before the detection ended; disconnect() completed and since
\* then connect() was not called and no connect/accountsChanged event came.
NewSdk(provider) ==
  [provider |-> provider, isConnected |-> FALSE, connectedAddress |-> "none",
   last |-> NoCall, octra |-> provider,
   waitForProvider |-> IF provider THEN "null" ELSE "false",
   listening |-> FALSE, timer |-> FALSE, inflight |-> {}, available |-> "none",
   sawOctra |-> provider, quiet |-> FALSE]

\* new OctraSDK(): initializeProvider() finds window.octra at once, or
\* creates waitForProvider, attaches the octraLoaded listener and arms the
\* timeout.
Constructed(octra) ==
  IF octra THEN NewSdk(TRUE)
  ELSE [NewSdk(FALSE) EXCEPT !.waitForProvider = "pending", !.listening = TRUE,
                             !.timer = TRUE]

\* The page's environment defines window.octra.
OctraInjected(k) ==
  [k EXCEPT !.octra = TRUE, !.sawOctra = @ \/ k.timer]

\* handleOctraLoaded: the octraLoaded event reaches the attached listener.
HandleOctraLoaded(k) ==
  IF k.listening /\ k.octra
  THEN [k EXCEPT !.provider = TRUE, !.listening = FALSE,
                 !.waitForProvider = "true"]
  ELSE k

\* The setTimeout callback of initializeProvider.
DetectionTimeout(k) ==
  [k EXCEPT !.listening = FALSE, !.timer = FALSE,
            !.waitForProvider = IF k.provider THEN @ ELSE "false"]

\* OctraSDK.isAvailable(), once waitForProvider has settled.
IsAvailable(k) ==
  [k EXCEPT !.available = IF k.provider THEN "true" ELSE "false"]

\* The listeners of setupProviderListeners.
OnConnect(k, address) ==
  [k EXCEPT !.isConnected = TRUE, !.connectedAddress = address,
            !.quiet = FALSE]

\* A disconnect listener that keeps the address.
OnDisconnectKeepingAddress(k) ==
  [k EXCEPT !.isConnected = FALSE]

OnDisconnect(k) ==
  [k EXCEPT !.isConnected = FALSE, !.connectedAddress = "none"]

OnAccountsChanged(k, accounts) ==
  IF Len(accounts) > 0
  THEN [k EXCEPT !.connectedAddress = accounts[1], !.isConnected = TRUE,
                 !.quiet = FALSE]
  ELSE [k EXCEPT !.connectedAddress = "none", !.isConnected = FALSE]

\* A call that throws before the provider is touched.
Throws(k, method, options, message) ==
  [k EXCEPT !.last = [method |-> method, options |-> options,
                      invoked |-> "none", out |-> NoOutcome,
                      state |-> "rejected", value |-> [error |-> message]]]

\* A call that awaited provider method `invoked` and settled as r.
Invoked(k, method, options, invoked, out, r) ==
  [k EXCEPT !.last = [method |-> method, options |-> options,
                      invoked |-> invoked, out |-> out,
                      state |-> r.state, value |-> r.value]]

NotConnected == "Not connected to wallet. Please connect first."

\* A connect that marks the SDK connected before the provider answers.
OctraConnectOptimistic(k, appName, out) ==
  IF ~k.provider
  THEN Throws(k, "connect", [appName |-> appName],
              "Octra wallet extension is not installed or not available")
  ELSE Invoked([k EXCEPT !.isConnected = TRUE,
                         !.connectedAddress = IF out.ok THEN out.address ELSE @],
               "connect", [appName |-> appName], "connect", out,
               SdkConnect(Request(0, appName, "connection"), out))

\* OctraSDK.connect({appName})
OctraConnect(k, appName, out) ==
  IF ~k.provider
  THEN Throws(k, "connect", [appName |-> appName],
              "Octra wallet extension is not installed or not available")
  ELSE Invoked(IF out.ok
               THEN [k EXCEPT !.isConnected = TRUE,
                              !.connectedAddress = out.address]
               ELSE k,
               "connect", [appName |-> appName], "connect", out,
               SdkConnect(Request(0, appName, "connection"), out))

\* A viewCall that validates its options before it looks at the connection.
OctraViewCallValidatingFirst(k, options, out) ==
  IF options = Undefined
  THEN Throws(k, "viewCall", options, "TypeError")
  ELSE IF options.contractAddress = "" \/ options.methodName = ""
  THEN Throws(k, "viewCall", options,
              "contractAddress and methodName are required")
  ELSE IF ~k.isConnected
  THEN Throws(k, "viewCall", options, NotConnected)
  ELSE Invoked(k, "viewCall", options, "callContractMethod", out,
               SdkViewCall(out))

\* OctraSDK.viewCall(options): destructuring undefined options throws a
\* TypeError.
OctraViewCall(k, options, out) ==
  IF ~k.isConnected
  THEN Throws(k, "viewCall", options, NotConnected)
  ELSE IF options = Undefined
  THEN Throws(k, "viewCall", options, "TypeError")
  ELSE IF options.contractAddress = "" \/ options.methodName = ""
  THEN Throws(k, "viewCall", options,
              "contractAddress and methodName are required")
  ELSE Invoked(k, "viewCall", options, "callContractMethod", out,
               SdkViewCall(out))

\* OctraSDK.callContract(options)
OctraCallContract(k, options, out) ==
  IF ~k.isConnected
  THEN Throws(k, "callContract", options, NotConnected)
  ELSE IF options = Undefined
  THEN Throws(k, "callContract", options, "TypeError")
  ELSE IF options.contractAddress = "" \/ options.methodName = ""
  THEN Throws(k, "callContract", options,
              "contractAddress and methodName are required")
  ELSE Invoked(k, "callContract", options, "callContractMethod", out,
               SdkCallContract(out))

\* OctraSDK.sendTransaction(options): !amount is also true of amount 0.
OctraSendTransaction(k, options, out) ==
  IF ~k.isConnected
  THEN Throws(k, "sendTransaction", options, NotConnected)
  ELSE IF options = Undefined
  THEN Throws(k, "sendTransaction", options, "TypeError")
  ELSE IF options.to = "" \/ options.amount = 0
  THEN Throws(k, "sendTransaction", options, "to and amount are required")
  ELSE Invoked(k, "sendTransaction", options, "sendTransaction", out,
               IF out.ok
               THEN [state |-> "resolved",
                     value |-> [success |-> TRUE,
                                txHash |-> OrElse(out.result.hash,
                                                  out.result.txHash)]]
               ELSE [state |-> "rejected",
                     value |-> [error |-> OrElse(out.message,
                                                 "Transaction failed")]])

\* OctraSDK.getBalance(address): the provider is asked for the given address
\* or, without one, for the connected address; the value returned is
\* result.balance || result.
OctraGetBalance(k, address, out) ==
  IF ~k.isConnected
  THEN Throws(k, "getBalance", [address |-> address], NotConnected)
  ELSE Invoked(k, "getBalance",
               [address |-> OrElse(address, k.connectedAddress)],
               "getBalance", out,
               IF out.ok
               THEN [state |-> "resolved",
                     value |-> IF out.result.balance # ""
                               THEN [returned |-> out.result.balance]
                               ELSE [returned |-> out.result]]
               ELSE [state |-> "rejected",
                     value |-> [error |-> OrElse(out.message,
                                                 "Failed to get balance")]])

\* OctraSDK.signMessage(message): returns result.signature || result.
OctraSignMessage(k, message, out) ==
  IF ~k.isConnected
  THEN Throws(k, "signMessage", [message |-> message], NotConnected)
  ELSE Invoked(k, "signMessage", [message |-> message], "signMessage", out,
               IF out.ok
               THEN [state |-> "resolved",
                     value |-> IF out.result.signature # ""
                               THEN [returned |-> out.result.signature]
                               ELSE [returned |-> out.result]]
               ELSE [state |-> "rejected",
                     value |-> [error |-> OrElse(out.message,
                                                 "Failed to sign message")]])

\* OctraSDK.disconnect(): a provider error is logged and swallowed.
OctraDisconnect(k) ==
  [k EXCEPT !.isConnected = FALSE, !.connectedAddress = "none",
            !.last = [NoCall EXCEPT !.method = "disconnect",
                                    !.invoked = IF k.provider THEN "disconnect"
                                                ELSE "none",
                                    !.state = "resolved"]]

\* No window open, no request submitted.
InitPage ==
  /\ surf = [s \in Surfaces |-> ClosedSurface]
  /\ chan = <<>>
  /\ awaiting = {}
  /\ promise = [i \in 1..MaxRequests |-> NoPromise]
  /\ nextId = 0

InitRest ==
  /\ InitPage
  /\ sdk = NewSdk(TRUE)

\* A page that has constructed its SDK, with or without the extension.
SdkInit ==
  /\ store = EmptyStore
  /\ InitPage
  /\ sdk \in {NewSdk(p) : p \in BOOLEAN}

\* The request lifecycle: a set-up, locked wallet with two stored wallets.
Init ==
  /\ store = SetUpStore(Json(<<GoodRecord("oct1"), GoodRecord("oct2")>>))
  /\ InitRest

\* The store an interrupted unlockWallets leaves: of its two concurrent
\* writes, isWalletLocked = 'false' landed and wallets did not.
HalfUnlockedStore ==
  [SetUpStore(Json(<<GoodRecord("oct1")>>)) EXCEPT
     !["isWalletLocked"] = Str("false")]

\* Windows and requests: a fresh install, or a set-up, locked wallet.
SurfaceInit ==
  /\ store \in {EmptyStore,
                SetUpStore(Json(<<GoodRecord("oct1"), GoodRecord("oct2")>>))}
  /\ InitRest

\* The wallet gate: a fresh install, a set-up wallet with any of the stored
\* lists, or a set-up wallet whose last unlock was interrupted.
GateInit ==
  /\ store \in {EmptyStore, HalfUnlockedStore}
               \cup {SetUpStore(e) : e \in InitialEncrypted}
  /\ InitRest

\* ----------------------------------------------------------------- actions
\* A new window takes the lowest free slot (slots are interchangeable).
Free(s) ==
  /\ surf[s].phase = "closed"
  /\ \A t \in Surfaces : t < s => surf[t].phase # "closed"
Ready(s) == surf[s].phase = "ready"
OnScreen(s, screen) == Ready(s) /\ Screen(surf[s]) = screen

\* The page calls connect / viewCall / callContract from `origin`; background
\* submits the request and opens the surface for it, or reports a conflict.
PageRequest(kind, origin, s) ==
  LET id == nextId + 1
      req == Request(id, origin, kind)
      pending == [NoPromise EXCEPT !.req = req, !.state = "pending"]
  IN /\ nextId < MaxRequests
     /\ (nextId = 0 => origin = "dappA")
     /\ nextId' = id
     /\ store' = Submit(store, req)
     /\ IF SubmitConflict(store, kind)
        THEN /\ promise' = [promise EXCEPT ![id] =
                              Settle(pending, Outcome(FALSE, "none", NoResult,
                                                      "RequestConflict"))]
             /\ UNCHANGED <<surf, awaiting>>
        ELSE /\ Free(s)
             /\ promise' = [promise EXCEPT ![id] = pending]
             /\ awaiting' = awaiting \cup {id}
             /\ surf' = [surf EXCEPT ![s] =
                           IF SurfaceFor(kind) = "popup"
                           THEN NewSurface("PopupApp", "popup", "request", id)
                           ELSE NewSurface("App", "tab", "request", id)]
     /\ UNCHANGED <<chan, sdk>>

\* The user opens the popup from the toolbar.
OpenPopup(s) ==
  /\ Free(s)
  /\ surf' = [surf EXCEPT ![s] = NewSurface("PopupApp", "popup", "toolbar", 0)]
  /\ UNCHANGED <<store, chan, awaiting, promise, nextId, sdk>>

\* PopupApp.openExpandedView: chrome.tabs.create(index.html)
OpenExpandedView(s, t) ==
  /\ OnScreen(s, "Dashboard")
  /\ surf[s].app = "PopupApp"
  /\ Free(t)
  /\ surf' = [surf EXCEPT ![t] = NewSurface("App", "tab", "expand", 0)]
  /\ UNCHANGED <<store, chan, awaiting, promise, nextId, sdk>>

\* A tab is opened on index.html?action=connect&origin=...&permissions=...
OpenConnectTab(s, origin) ==
  /\ Free(s)
  /\ surf' = [surf EXCEPT ![s] =
                [NewSurface("App", "tab", "url", 0) EXCEPT
                   !.url = Request(0, origin, "connection")]]
  /\ UNCHANGED <<store, chan, awaiting, promise, nextId, sdk>>

\* PopupApp's mount effect at the grain of its awaits: first the pending
\* entries and the gate, then, on an open gate, the wallet list.
MountGate(s) ==
  /\ surf[s].phase = "loading"
  /\ surf[s].app = "PopupApp"
  /\ LET r == PopupLoadGate(surf[s], store)
     IN surf' = [surf EXCEPT ![s] = r.u] /\ store' = r.store
  /\ UNCHANGED <<chan, awaiting, promise, nextId, sdk>>

MountWallets(s) ==
  /\ surf[s].phase = "loadingWallets"
  /\ surf' = [surf EXCEPT ![s] = PopupLoadWallets(surf[s], store)]
  /\ UNCHANGED <<store, chan, awaiting, promise, nextId, sdk>>

\* The mount effect of a new window.
Mount(s) ==
  /\ surf[s].phase = "loading"
  /\ IF surf[s].app = "PopupApp"
     THEN LET r == PopupLoadInitialData(surf[s], store)
          IN surf' = [surf EXCEPT ![s] = r.u] /\ store' = r.store
     ELSE /\ surf' = [surf EXCEPT ![s] =
                           AppCheckWalletStatus(surf[s], store, surf[s].url)]
          /\ store' = store
  /\ UNCHANGED <<chan, awaiting, promise, nextId, sdk>>

\* UnlockWallet: the user submits a password; on success onUnlock runs.
Unlock(s, password) ==
  LET r == UnlockWallets(store, password)
  IN /\ OnScreen(s, "Unlock")
     /\ store' = r.store
     /\ IF r.ok
        THEN surf' = [surf EXCEPT ![s] =
                        IF surf[s].app = "PopupApp"
                        THEN PopupHandleUnlock(surf[s], r.wallets)
                        ELSE AppHandleUnlock(surf[s], r.wallets, r.store)]
        ELSE surf' = [surf EXCEPT ![s].unlockError = r.error]
     /\ UNCHANGED <<chan, awaiting, promise, nextId, sdk>>

\* WelcomeScreen.onWalletCreated / WalletDashboard.onAddWallet
AddWallet(s, w) ==
  LET r == IF surf[s].app = "PopupApp" THEN PopupAddWallet(surf[s], store, w)
           ELSE AppAddWallet(surf[s], store, w)
  IN /\ Ready(s)
     /\ Screen(surf[s]) \in {"Welcome", "Dashboard"}
     /\ Len(surf[s].wallets) < MaxWallets
     /\ surf' = [surf EXCEPT ![s] = r.u]
     /\ store' = r.store
     /\ UNCHANGED <<chan, awaiting, promise, nextId, sdk>>

\* WalletDashboard.onSwitchWallet
SwitchWallet(s, i) ==
  LET w == surf[s].wallets[i]
      r == IF surf[s].app = "PopupApp" THEN PopupSwitchWallet(surf[s], store, w)
           ELSE AppSwitchWallet(surf[s], store, w)
  IN /\ OnScreen(s, "Dashboard")
     /\ i \in 1..Len(surf[s].wallets)
     /\ w # surf[s].wallet
     /\ surf' = [surf EXCEPT ![s] = r.u]
     /\ store' = r.store
     /\ UNCHANGED <<chan, awaiting, promise, nextId, sdk>>

\* WalletDashboard after onRemoveWallet: when the removed wallet was the
\* active one and wallets remain, it switches to the first that remains.
SwitchAfterRemove(app, r) ==
  IF Len(r.u.wallets) > 0 /\ FindWallet(r.u.wallets, r.u.wallet.address) = NoWallet
  THEN IF app = "PopupApp" THEN PopupSwitchWallet(r.u, r.store, r.u.wallets[1])
       ELSE AppSwitchWallet(r.u, r.store, r.u.wallets[1])
  ELSE r

\* WalletDashboard.onRemoveWallet
RemoveWallet(s, i) ==
  LET w == surf[s].wallets[i]
      removed == IF surf[s].app = "PopupApp"
                 THEN PopupRemoveWallet(surf[s], store, w)
                 ELSE AppRemoveWallet(surf[s], store, w)
      r == SwitchAfterRemove(surf[s].app, removed)
  IN /\ OnScreen(s, "Dashboard")
     /\ i \in 1..Len(surf[s].wallets)
     /\ surf' = [surf EXCEPT ![s] = r.u]
     /\ store' = r.store
     /\ UNCHANGED <<chan, awaiting, promise, nextId, sdk>>

\* WalletDashboard.onDisconnect
Disconnect(s) ==
  LET r == IF surf[s].app = "PopupApp" THEN PopupDisconnectWallet(surf[s], store)
           ELSE AppDisconnectWallet(surf[s], store)
  IN /\ OnScreen(s, "Dashboard")
     /\ surf' = [surf EXCEPT ![s] = r.u]
     /\ store' = r.store
     /\ UNCHANGED <<chan, awaiting, promise, nextId, sdk>>

\* window.close(): the window is gone and the host reports it to background
\* when the window was opened for a request.
CloseEvents(u, n) ==
  IF u.openedFor = 0 THEN <<>>
  ELSE IF n = 1 THEN <<Closed(u.openedFor)>>
  ELSE <<Closed(u.openedFor), Closed(u.openedFor)>>

\* A decision handler of PopupApp: message, clear the entry, close.
Decide(s, r) ==
  /\ chan' = chan \o <<r.msg>> \o CloseEvents(surf[s], 1)
  /\ Len(chan') <= MaxChan
  /\ store' = r.store
  /\ surf' = [surf EXCEPT ![s] = ClosedSurface]
  /\ UNCHANGED <<awaiting, nextId, sdk>>

ConnectionApprove(s, i) ==
  /\ OnScreen(s, "ConnectionApproval")
  /\ surf[s].app = "PopupApp"
  /\ i \in 1..Len(surf[s].wallets)
  /\ Decide(s, HandleConnectionApprove(surf[s], store, surf[s].wallets[i]))
  /\ UNCHANGED promise

ConnectionReject(s) ==
  /\ OnScreen(s, "ConnectionApproval")
  /\ surf[s].app = "PopupApp"
  /\ Decide(s, HandleConnectionReject(surf[s], store))
  /\ UNCHANGED promise

\* App's ConnectionApproval: approve or reject in the tab.
AppConnectionDecide(s, approved) ==
  /\ OnScreen(s, "ConnectionApproval")
  /\ surf[s].app = "App"
  /\ Decide(s, AppOnApprove(surf[s], store, approved))
  /\ UNCHANGED promise

ContractApprove(s, result) ==
  /\ OnScreen(s, "ContractApproval")
  /\ surf[s].wallet # NoWallet
  /\ Decide(s, HandleContractApprove(surf[s], store, result))
  /\ LET id == surf[s].contractRequest.id
     IN promise' =
          IF PendingOf(store, "pendingContractRequest").id = id
          THEN [promise EXCEPT ![id].approved = result]
          ELSE promise

ContractReject(s) ==
  /\ OnScreen(s, "ContractApproval")
  /\ Decide(s, HandleContractReject(surf[s], store, ""))
  /\ UNCHANGED promise

\* The user closes a window without deciding; the host may report the close
\* twice.
CloseSurface(s, n) ==
  /\ surf[s].phase # "closed"
  /\ chan' = chan \o CloseEvents(surf[s], n)
  /\ Len(chan') <= MaxChan
  /\ surf' = [surf EXCEPT ![s] = ClosedSurface]
  /\ LET id == surf[s].openedFor
     IN promise' =
          IF id > 0 /\ PendingOf(store, KeyOf(promise[id].req.kind)).id = id
          THEN [promise EXCEPT ![id].closed = TRUE]
          ELSE promise
  /\ UNCHANGED <<store, awaiting, nextId, sdk>>

\* Background handles the next message or close event.
Background ==
  LET msg == Head(chan)
      id == IF msg.type = "CLOSED"
            THEN (IF Abandons(msg.id, awaiting) THEN msg.id ELSE 0)
            ELSE ResultTarget(msg, awaiting, promise)
      out == IF msg.type = "CLOSED"
             THEN Outcome(FALSE, "none", NoResult, "Abandoned")
             ELSE ResultOutcome(msg)
  IN /\ chan # <<>>
     /\ chan' = Tail(chan)
     /\ IF id = 0
        THEN UNCHANGED <<store, awaiting, promise>>
        ELSE /\ promise' = [promise EXCEPT ![id] = Settle(promise[id], out)]
             /\ awaiting' = awaiting \ {id}
             /\ store' = Resolve(store, id)
     /\ UNCHANGED <<surf, nextId, sdk>>

\* The steps of the wallet gate and the wallet list.
GateNext ==
  \/ \E s \in Surfaces : OpenPopup(s)
  \/ \E s \in Surfaces, t \in Surfaces : OpenExpandedView(s, t)
  \/ \E s \in Surfaces : Mount(s)
  \/ \E s \in Surfaces, p \in Passwords : Unlock(s, p)
  \/ \E s \in Surfaces, w \in AllWallets : AddWallet(s, w)
  \/ \E s \in Surfaces, i \in 1..MaxWallets : SwitchWallet(s, i)
  \/ \E s \in Surfaces, i \in 1..MaxWallets : RemoveWallet(s, i)
  \/ \E s \in Surfaces : Disconnect(s)
  \/ \E s \in Surfaces : CloseSurface(s, 1)

\* The steps of the request lifecycle: requests, the popups that show them,
\* the decisions and background.
Next ==
  \/ \E k \in Kinds, o \in Origins, s \in Surfaces : PageRequest(k, o, s)
  \/ \E s \in Surfaces : OpenPopup(s)
  \/ \E s \in Surfaces : Mount(s)
  \/ \E s \in Surfaces : Unlock(s, "pw")
  \/ \E s \in Surfaces, i \in 1..MaxWallets : ConnectionApprove(s, i)
  \/ \E s \in Surfaces : ConnectionReject(s)
  \/ \E s \in Surfaces, r \in ContractResults : ContractApprove(s, r)
  \/ \E s \in Surfaces : ContractReject(s)
  \/ \E s \in Surfaces, n \in {1, 2} : CloseSurface(s, n)
  \/ Background

\* Requests of one page decided while the wallet is locked and unlocked.
LockNext ==
  \/ \E k \in {"connection", "call"}, s \in Surfaces : PageRequest(k, "dappA", s)
  \/ \E s \in Surfaces : OpenPopup(s)
  \/ \E s \in Surfaces : Mount(s)
  \/ \E s \in Surfaces : Unlock(s, "pw")
  \/ \E s \in Surfaces : Disconnect(s)
  \/ \E s \in Surfaces, i \in 1..MaxWallets : ConnectionApprove(s, i)
  \/ \E s \in Surfaces : ConnectionReject(s)
  \/ \E s \in Surfaces, r \in ContractResults : ContractApprove(s, r)
  \/ \E s \in Surfaces : ContractReject(s)
  \/ \E s \in Surfaces : CloseSurface(s, 1)
  \/ Background

\* The steps that open, gate and close windows while requests come in.
SurfaceNext ==
  \/ \E k \in Kinds, o \in Origins, s \in Surfaces : PageRequest(k, o, s)
  \/ \E s \in Surfaces : OpenPopup(s)
  \/ \E s \in Surfaces, t \in Surfaces : OpenExpandedView(s, t)
  \/ \E s \in Surfaces : Mount(s)
  \/ \E s \in Surfaces : Unlock(s, "pw")
  \/ \E s \in Surfaces : Disconnect(s)
  \/ \E s \in Surfaces : CloseSurface(s, 1)
  \/ Background

Spec == Init /\ [][Next]_vars
LockSpec == Init /\ [][LockNext]_vars
\* Connection requests decided in the popup opened for them or in a tab that
\* the user opened on the wallet page with connect parameters in its URL.
TabNext ==
  \/ \E o \in Origins, s \in Surfaces : PageRequest("connection", o, s)
  \/ \E s \in Surfaces : OpenConnectTab(s, "dappA")
  \/ \E s \in Surfaces : Mount(s)
  \/ \E s \in Surfaces : Unlock(s, "pw")
  \/ \E s \in Surfaces, i \in 1..MaxWallets : ConnectionApprove(s, i)
  \/ \E s \in Surfaces : ConnectionReject(s)
  \/ \E s \in Surfaces, a \in BOOLEAN : AppConnectionDecide(s, a)
  \/ \E s \in Surfaces : CloseSurface(s, 1)
  \/ Background

TabSpec == Init /\ [][TabNext]_vars

\* The host's storage event for a write of isWalletLocked: every other open
\* window is to receive newValue.
Notified(f, writer, newValue) ==
  [t \in Surfaces |->
     IF t # writer /\ f[t].phase # "closed"
     THEN [f[t] EXCEPT !.event = newValue]
     ELSE f[t]]

UnlockWithEvent(s, password) ==
  LET r == UnlockWallets(store, password)
      u == IF surf[s].app = "PopupApp" THEN PopupHandleUnlock(surf[s], r.wallets)
           ELSE AppHandleUnlock(surf[s], r.wallets, r.store)
  IN /\ OnScreen(s, "Unlock")
     /\ r.ok
     /\ store' = r.store
     /\ surf' = Notified([surf EXCEPT ![s] = u], s, "false")
     /\ UNCHANGED <<chan, awaiting, promise, nextId, sdk>>

DisconnectWithEvent(s) ==
  LET r == IF surf[s].app = "PopupApp" THEN PopupDisconnectWallet(surf[s], store)
           ELSE AppDisconnectWallet(surf[s], store)
  IN /\ OnScreen(s, "Dashboard")
     /\ store' = r.store
     /\ surf' = Notified([surf EXCEPT ![s] = r.u], s, "true")
     /\ UNCHANGED <<chan, awaiting, promise, nextId, sdk>>

\* The storage event reaches window s: App runs handleStorageChange;
\* PopupApp registers no listener, so the event passes.
StorageEvent(s) ==
  /\ Ready(s)
  /\ surf[s].event # "none"
  /\ surf' = [surf EXCEPT ![s] =
                IF surf[s].app = "App"
                THEN AppHandleStorageChange(surf[s], store, surf[s].event)
                ELSE [surf[s] EXCEPT !.event = "none"]]
  /\ UNCHANGED <<store, chan, awaiting, promise, nextId, sdk>>

\* Windows open side by side while one of them locks and unlocks.
EventNext ==
  \/ \E s \in Surfaces : OpenPopup(s)
  \/ \E s \in Surfaces, t \in Surfaces : OpenExpandedView(s, t)
  \/ \E s \in Surfaces : Mount(s)
  \/ \E s \in Surfaces : UnlockWithEvent(s, "pw")
  \/ \E s \in Surfaces : DisconnectWithEvent(s)
  \/ \E s \in Surfaces : StorageEvent(s)
  \/ \E s \in Surfaces, i \in 1..MaxWallets : SwitchWallet(s, i)
  \/ \E s \in Surfaces : CloseSurface(s, 1)

EventSpec == Init /\ [][EventNext]_vars

\* Popups mounting on a store whose pending entries are absent, well formed
\* or unparsable.
PendingEntries(kind) == {Null, Garbage, Json(Request(1, "dappA", kind))}

ParseInit ==
  /\ \E st \in {EmptyStore,
                 SetUpStore(Json(<<GoodRecord("oct1"), GoodRecord("oct2")>>))},
        c \in PendingEntries("connection"), k \in PendingEntries("call") :
       store = [st EXCEPT !["pendingConnectionRequest"] = c,
                          !["pendingContractRequest"] = k]
  /\ InitRest

ParseNext ==
  \/ \E s \in Surfaces : OpenPopup(s)
  \/ \E s \in Surfaces : MountGate(s)
  \/ \E s \in Surfaces : MountWallets(s)
  \/ \E s \in Surfaces : Unlock(s, "pw")
  \/ \E s \in Surfaces : ConnectionReject(s)
  \/ \E s \in Surfaces : ContractReject(s)
  \/ \E s \in Surfaces : CloseSurface(s, 1)
  \/ Background

ParseSpec == ParseInit /\ [][ParseNext]_vars

\* One call of an SDK method by the page, with the provider's answer.
SdkCall(k) ==
  /\ sdk' = k
  /\ UNCHANGED <<store, surf, chan, awaiting, promise, nextId>>

SdkNext ==
  \/ \E a \in Origins, o \in ConnectOutcomes : SdkCall(OctraConnect(sdk, a, o))
  \/ \E p \in ContractOptions, o \in CallOutcomes : SdkCall(OctraViewCall(sdk, p, o))
  \/ \E p \in ContractOptions, o \in CallOutcomes :
       SdkCall(OctraCallContract(sdk, p, o))
  \/ \E p \in TxOptions, o \in CallOutcomes :
       SdkCall(OctraSendTransaction(sdk, p, o))
  \/ \E a \in {"", "oct2"}, o \in BalanceOutcomes :
       SdkCall(OctraGetBalance(sdk, a, o))
  \/ \E o \in SignOutcomes : SdkCall(OctraSignMessage(sdk, "hello", o))
  \/ SdkCall(OctraDisconnect(sdk))

SdkSpec == SdkInit /\ [][SdkNext]_vars

\* The SDK at the grain of its awaits: a method call starts, the provider
\* answers later, and events, other calls and disconnect() come in between.
InjectOctra ==
  /\ ~sdk.octra
  /\ SdkCall(OctraInjected(sdk))

OctraLoadedEvent ==
  /\ sdk.listening
  /\ SdkCall(HandleOctraLoaded(sdk))

TimeoutFires ==
  /\ sdk.timer
  /\ SdkCall(DetectionTimeout(sdk))

IsAvailableSettles ==
  /\ sdk.waitForProvider # "pending"
  /\ SdkCall(IsAvailable(sdk))

\* connect(): isAvailable() has settled; without a provider it throws, with
\* one it awaits provider.connect.
ConnectStarts(appName) ==
  /\ sdk.waitForProvider # "pending"
  /\ "connect" \notin sdk.inflight
  /\ IF sdk.provider
     THEN SdkCall([sdk EXCEPT !.inflight = @ \cup {"connect"}, !.quiet = FALSE])
     ELSE SdkCall([OctraConnect(sdk, appName, NoOutcome) EXCEPT !.quiet = FALSE])

ConnectSettles(appName, out) ==
  /\ "connect" \in sdk.inflight
  /\ SdkCall([OctraConnect(sdk, appName, out) EXCEPT
               !.inflight = @ \ {"connect"}])

\* callContract(options) passes its checks and awaits the provider.
CallStarts ==
  /\ sdk.isConnected
  /\ "callContract" \notin sdk.inflight
  /\ SdkCall([sdk EXCEPT !.inflight = @ \cup {"callContract"}])

CallSettles(out) ==
  /\ "callContract" \in sdk.inflight
  /\ SdkCall([Invoked(sdk, "callContract",
                      [contractAddress |-> "octC", methodName |-> "get"],
                      "callContractMethod", out, SdkCallContract(out))
               EXCEPT !.inflight = @ \ {"callContract"}])

\* disconnect(): provider.disconnect() resolved or threw (the error is only
\* logged), then the fields are cleared.
DisconnectCompletes ==
  SdkCall([OctraDisconnect(sdk) EXCEPT !.quiet = TRUE])

ProviderEmits(k) ==
  /\ sdk.provider
  /\ SdkCall(k)

AsyncNext ==
  \/ InjectOctra
  \/ OctraLoadedEvent
  \/ TimeoutFires
  \/ IsAvailableSettles
  \/ ConnectStarts("dappA")
  \/ \E o \in ConnectOutcomes : ConnectSettles("dappA", o)
  \/ CallStarts
  \/ \E o \in CallOutcomes : CallSettles(o)
  \/ DisconnectCompletes
  \/ \E a \in {"oct1", "oct2"} : ProviderEmits(OnConnect(sdk, a))
  \/ ProviderEmits(OnDisconnect(sdk))
  \/ \E acc \in {<<>>, <<"oct2">>} : ProviderEmits(OnAccountsChanged(sdk, acc))

AsyncInit ==
  /\ store = EmptyStore
  /\ InitPage
  /\ sdk \in {Constructed(o) : o \in BOOLEAN}

AsyncSpec == AsyncInit /\ [][AsyncNext]_vars

\* Popups mounting while another popup unlocks, switches and locks.
SnapshotNext ==
  \/ \E s \in Surfaces : OpenPopup(s)
  \/ \E s \in Surfaces : MountGate(s)
  \/ \E s \in Surfaces : MountWallets(s)
  \/ \E s \in Surfaces : Unlock(s, "pw")
  \/ \E s \in Surfaces, i \in 1..MaxWallets : SwitchWallet(s, i)
  \/ \E s \in Surfaces : Disconnect(s)
  \/ \E s \in Surfaces : CloseSurface(s, 1)

SnapshotSpec == Init /\ [][SnapshotNext]_vars
SurfaceSpec == SurfaceInit /\ [][SurfaceNext]_vars
GateSpec == GateInit /\ [][GateNext]_vars

\* ------------------------------------------------------------------ claims
\* The contract request in the store, and whether the wallet gate is shut.
PendingContract == PendingOf(store, "pendingContractRequest")
Gated == ShouldShowUnlockScreen(store)

\* C1: when the wallet is gated and a contract request is pending, a
\* successful unlock on a surface that was mounted with that request leaves
\* the surface on the contract-approval screen, never on the dashboard, in
\* the popup and in the tab alike.
C1_UnlockShowsContractApproval ==
  [][\A s \in Surfaces :
       (/\ OnScreen(s, "Unlock")
        /\ Gated
        /\ PendingContract # NoReq
        /\ surf[s].mountContract = PendingContract.id
        /\ surf'[s].phase = "ready"
        /\ ~surf'[s].isLocked)
       => Screen(surf'[s]) = "ContractApproval"]_vars

C3_ConflictKeepsStored ==
  [][(/\ nextId' # nextId
      /\ Truthy(Get(store, KeyOf(promise'[nextId'].req.kind))))
     => /\ store' = store
        /\ surf' = surf
        /\ awaiting' = awaiting
        /\ promise'[nextId'].state = "rejected"
        /\ promise'[nextId'].value = [error |-> "RequestConflict"]]_vars

\* A request of another origin was refused while the first one is stored.
C3_Witness ==
  \E i \in 1..MaxRequests :
    /\ promise[i].state = "rejected"
    /\ promise[i].value = [error |-> "RequestConflict"]
    /\ \E k \in {"pendingConnectionRequest", "pendingContractRequest"} :
         /\ PendingOf(store, k) # NoReq
         /\ KeyOf(promise[i].req.kind) = k
         /\ PendingOf(store, k).origin # promise[i].req.origin

\* C4: a contract call approved with {txHash: "abc123"} while it is the
\* stored request settles as resolved with exactly
\* {success: true, txHash: "abc123", type: "call"}, handed over once.
C4_ApproveRoundTrip ==
  \A i \in 1..MaxRequests :
    (/\ promise[i].req.kind = "call"
     /\ promise[i].approved = [txHash |-> "abc123", hash |-> ""]
     /\ promise[i].state # "pending")
    => /\ promise[i].state = "resolved"
       /\ promise[i].value =
            [success |-> TRUE, txHash |-> "abc123", type |-> "call"]
       /\ promise[i].n = 1

\* C5: a request whose window was closed without a decision while the
\* request was stored settles as rejected with Abandoned, handed over once.
C5_AbandonRoundTrip ==
  \A i \in 1..MaxRequests :
    (promise[i].closed /\ promise[i].state # "pending")
    => /\ promise[i].state = "rejected"
       /\ promise[i].value = [error |-> "Abandoned"]
       /\ promise[i].n = 1

\* The step in which an unlock on surface s fails / succeeds / the step in
\* which surface s disconnects.
UnlockFails(s) ==
  /\ OnScreen(s, "Unlock")
  /\ surf'[s].unlockError # ""
  /\ surf'[s].unlockError # surf[s].unlockError
UnlockSucceeds(s) ==
  /\ OnScreen(s, "Unlock")
  /\ surf'[s].phase = "ready"
  /\ ~surf'[s].isLocked
Disconnects(s) ==
  /\ OnScreen(s, "Dashboard")
  /\ surf'[s].phase = "ready"
  /\ surf'[s].isLocked

\* C6: an unlock that fails, for a missing password hash or salt or for a
\* wrong password, leaves wallets, isWalletLocked and activeWalletId (and
\* the rest of the store) as they were, and the surface stays locked.
C6_FailedUnlockKeepsStore ==
  [][\A s \in Surfaces :
       UnlockFails(s)
       => /\ store'["wallets"] = store["wallets"]
          /\ store'["isWalletLocked"] = store["isWalletLocked"]
          /\ store'["activeWalletId"] = store["activeWalletId"]
          /\ store' = store
          /\ surf'[s].isLocked]_vars

\* A wrong password was refused on a set-up wallet.
C6_Witness ==
  \E s \in Surfaces :
    /\ surf[s].unlockError = "Invalid password"
    /\ store["walletPasswordHash"] # Null

\* The records of encryptedWallets that decrypt with the wallet's password
\* and hold JSON text, in stored order, and the wallets they hold.
DecryptableRecords(st) ==
  LET e == Get(st, "encryptedWallets")
  IN IF e.t # "json" THEN <<>>
     ELSE SelectSeq(e.j, LAMBDA r : /\ r.encryptedData.c = "enc"
                                    /\ HashPassword(r.encryptedData.key)
                                         = Get(st, "walletPasswordHash")
                                    /\ r.encryptedData.text.t = "json")
OriginalWallets(st) ==
  [i \in 1..Len(DecryptableRecords(st)) |->
     DecryptableRecords(st)[i].encryptedData.text.j]

\* C7: a successful unlock hands the surface, and writes to wallets, exactly
\* the stored records that decrypt and parse, in stored order and with their
\* original contents; a record that fails is left out and the others still
\* come through; isWalletLocked becomes 'false'.
C7_UnlockReturnsDecryptable ==
  [][\A s \in Surfaces :
       UnlockSucceeds(s)
       => /\ surf'[s].wallets = OriginalWallets(store)
          /\ store'["wallets"] = Json(OriginalWallets(store))
          /\ store'["isWalletLocked"] = Str("false")]_vars

\* An unlocked surface holds the one wallet of a stored list whose other
\* record did not decrypt or parse.
C7_Witness ==
  \E s \in Surfaces :
    /\ Ready(s) /\ ~surf[s].isLocked
    /\ store["isWalletLocked"] = Str("false")
    /\ Len(JsonParse(store["encryptedWallets"]).v) = 2
    /\ Len(DecryptableRecords(store)) = 1
    /\ surf[s].wallets = OriginalWallets(store)

\* C8: shouldShowUnlockScreen is true exactly when a password hash is
\* recorded and isWalletLocked is not 'false' or no wallet list is stored;
\* it is false whenever no hash is recorded.
C8_GateCondition ==
  ShouldShowUnlockScreen(store)
    <=> /\ store["walletPasswordHash"] # Null
        /\ \/ store["isWalletLocked"] # Str("false")
           \/ store["wallets"] = Null

\* A popup mounted locked although isWalletLocked is 'false': no wallet list
\* is stored.
C8_Witness ==
  \E s \in Surfaces :
    /\ surf[s].app = "PopupApp" /\ Ready(s) /\ surf[s].isLocked
    /\ store["walletPasswordHash"] # Null
    /\ store["isWalletLocked"] = Str("false")
    /\ store["wallets"] = Null

\* A wallet the store shows as unlocked: the flag is 'false' and a non-empty
\* decrypted list is stored.
StoreUnlocked ==
  /\ store["isWalletLocked"] = Str("false")
  /\ Len(StoredWallets(store)) > 0

\* C9: with a password set, every reader (shouldShowUnlockScreen,
\* isWalletLocked, App.checkWalletStatus) reports locked unless isWalletLocked
\* is 'false' and a non-empty decrypted wallet list is stored.
C9_LockedIsDefault ==
  (store["walletPasswordHash"] # Null /\ ~StoreUnlocked)
  => /\ ShouldShowUnlockScreen(store)
     /\ IsWalletLocked(store)
     /\ AppCheckWalletStatus(NewSurface("App", "tab", "expand", 0), store,
                             NoReq).isLocked

\* C10: after a disconnect on either surface the store has no wallets, no
\* activeWalletId and isWalletLocked = 'true', and locking it again, with
\* lockWallets or with either surface's disconnectWallet, changes nothing.
C10_LockIdempotent ==
  [][\A s \in Surfaces :
       Disconnects(s)
       => /\ store'["wallets"] = Null
          /\ store'["activeWalletId"] = Null
          /\ store'["isWalletLocked"] = Str("true")
          /\ LockWallets(store') = store'
          /\ PopupDisconnectWallet(surf'[s], store').store = store'
          /\ AppDisconnectWallet(surf'[s], store').store = store']_vars

\* A surface locked by disconnect on a wallet without a password.
C10_Witness ==
  \E s \in Surfaces :
    /\ Ready(s) /\ surf[s].isLocked
    /\ store["walletPasswordHash"] = Null
    /\ store["isWalletLocked"] = Str("true")

\* The addresses of a wallet list.
AddressesOf(ws) == {ws[i].address : i \in 1..Len(ws)}

\* C11: whenever a surface has a wallet list loaded, its selected wallet is a
\* wallet of that list and the stored activeWalletId is the address of a
\* wallet of that list.
C11_ActivePointerInList ==
  \A s \in Surfaces :
    (Ready(s) /\ ~surf[s].isLocked /\ Len(surf[s].wallets) > 0)
    => /\ surf[s].wallet.address \in AddressesOf(surf[s].wallets)
       /\ store["activeWalletId"] # Null
       /\ store["activeWalletId"].s \in AddressesOf(surf[s].wallets)

\* The screen the fixed order selects from a store.
ResolvedScreen(st) ==
  IF PendingOf(st, "pendingConnectionRequest") # NoReq THEN "ConnectionApproval"
  ELSE IF PendingOf(st, "pendingContractRequest") # NoReq THEN "ContractApproval"
  ELSE IF ShouldShowUnlockScreen(st) THEN "Unlock"
  ELSE IF SelectActive(StoredWallets(st), Get(st, "activeWalletId")) = NoWallet
  THEN "Welcome"
  ELSE "Dashboard"

SendsApproval ==
  /\ Len(chan') > Len(chan)
  /\ chan'[Len(chan) + 1].approved

\* C13: no CONNECTION_RESULT or CONTRACT_RESULT with approved = true is sent
\* while shouldShowUnlockScreen() is true.
C13_NoApprovalWhileGated ==
  [][SendsApproval => ~Gated]_vars

\* The step in which surface s decides: it sends a result message and closes.
DecisionBy(s) ==
  /\ Ready(s)
  /\ surf'[s].phase = "closed"
  /\ Len(chan') > Len(chan)
  /\ chan'[Len(chan) + 1].type \in {"CONNECTION_RESULT", "CONTRACT_RESULT"}

\* C14: when a surface has decided and closed, the result message is on its
\* way ahead of the window's close event and the stored entry of the decided
\* request (its kind's key, its origin) is gone.
C14_DecisionClearsBeforeClose ==
  [][\A s \in Surfaces :
       DecisionBy(s)
       => LET m == chan'[Len(chan) + 1]
              key == IF m.type = "CONNECTION_RESULT"
                     THEN "pendingConnectionRequest"
                     ELSE "pendingContractRequest"
          IN PendingOf(store', key).origin # m.origin]_vars

\* The screen a window of the given controller resolves when it mounts on
\* store st with no URL parameters.
ScreenAtMount(app, st) ==
  LET u == NewSurface(app, "popup", "user", 0)
  IN IF app = "PopupApp"
     THEN PopupScreen(PopupLoadInitialData(u, st).u)
     ELSE AppScreen(AppCheckWalletStatus(u, st, NoReq))

\* C15: PopupApp and App are one controller: on every store state both
\* resolve the same screen at mount.
C15_SameScreenOnBothSurfaces ==
  ScreenAtMount("PopupApp", store) = ScreenAtMount("App", store)

\* The result messages in flight.
ResultsInFlight ==
  {i \in 1..Len(chan) : chan[i].type \in {"CONNECTION_RESULT", "CONTRACT_RESULT"}}

\* C16: no two mounted surfaces hold the same pending request, and a single
\* submitted request never has two result messages in flight.
C16_OneReaderOneResult ==
  /\ \A s, t \in Surfaces :
       (s # t /\ Ready(s) /\ Ready(t))
       => /\ surf[s].connectionRequest = NoReq
             \/ surf[s].connectionRequest # surf[t].connectionRequest
          /\ surf[s].contractRequest = NoReq
             \/ surf[s].contractRequest # surf[t].contractRequest
  /\ nextId = 1 => Cardinality(ResultsInFlight) <= 1

\* The request surface s holds for the kind a result message of type ty decides.
HeldRequest(s, ty) ==
  IF ty = "CONNECTION_RESULT" THEN surf[s].connectionRequest
  ELSE surf[s].contractRequest

\* C17: a decision on a request that is no longer the stored one leaves the
\* store as it is: it never removes the entry of another request.
C17_LateDecisionIsNoOp ==
  [][\A s \in Surfaces :
       DecisionBy(s)
       => LET ty == chan'[Len(chan) + 1].type
              key == IF ty = "CONNECTION_RESULT" THEN "pendingConnectionRequest"
                     ELSE "pendingContractRequest"
          IN PendingOf(store, key) # HeldRequest(s, ty) => store' = store]_vars

\* What a surface renders from: its requests, locked flag, list and wallet.
Rendered(u) ==
  <<u.connectionRequest, u.contractRequest, u.isLocked, u.wallets, u.wallet>>

\* C18: the state a popup renders when its mount completes is the state
\* derived from the store at one instant of the mount: the instant of its
\* first read or the instant of its last read.
C18_MountIsOneSnapshot ==
  [][\A s \in Surfaces :
       (surf[s].phase = "loadingWallets" /\ surf'[s].phase = "ready")
       => Rendered(surf'[s]) \in
            {Rendered(PopupLoadInitialData(surf[s], surf[s].seen).u),
             Rendered(PopupLoadInitialData(surf[s], store).u)}]_vars

\* The options of the last call lack a required field.
LacksRequired(c) ==
  /\ c.method \in {"viewCall", "callContract", "sendTransaction"}
  /\ c.options # Undefined
  /\ IF c.method = "sendTransaction"
     THEN c.options.to = "" \/ c.options.amount = 0
     ELSE c.options.contractAddress = "" \/ c.options.methodName = ""

RequiredMessage(c) ==
  IF c.method = "sendTransaction" THEN "to and amount are required"
  ELSE "contractAddress and methodName are required"

\* The SDK's connection state is the same before and after the step.
SdkStateKept ==
  /\ sdk'.isConnected = sdk.isConnected
  /\ sdk'.connectedAddress = sdk.connectedAddress

C20_ConnectChangesStateOnApproval ==
  [][(sdk' # sdk /\ sdk'.last.method = "connect")
     => LET c == sdk'.last
        IN IF ~sdk.provider
           THEN /\ c.state = "rejected"
                /\ c.value = [error |-> "Octra wallet extension is not installed or not available"]
                /\ c.invoked = "none"
                /\ SdkStateKept
           ELSE IF c.out.ok
           THEN /\ c.state = "resolved"
                /\ sdk'.isConnected
                /\ sdk'.connectedAddress = c.out.address
                /\ c.value = [success |-> TRUE, address |-> c.out.address,
                              appName |-> c.options.appName]
           ELSE /\ c.state = "rejected"
                /\ c.value.error # ""
                /\ SdkStateKept]_vars

\* A connect was rejected while the SDK was connected to oct1, and it still is.
C20_Witness ==
  /\ sdk.last.method = "connect"
  /\ sdk.last.state = "rejected"
  /\ sdk.isConnected
  /\ sdk.connectedAddress = "oct1"

\* C21: once disconnect() has completed and nothing was started since, the
\* SDK is disconnected and no call issued before it is still in flight.
C21_DisconnectClearsPending ==
  sdk.last.method = "disconnect"
  => /\ ~sdk.isConnected
     /\ sdk.connectedAddress = "none"
     /\ sdk.inflight = {}

\* C27: isConnected is true exactly when connectedAddress is an address.
C27_ConnectedIffAddress ==
  sdk.isConnected <=> sdk.connectedAddress # "none"

\* The SDK is connected again after a disconnect, through an event.
C27_Witness ==
  /\ sdk.isConnected
  /\ sdk.connectedAddress = "oct2"
  /\ sdk.last.method = "disconnect"

\* C28: isAvailable() resolves false only if window.octra was not defined
\* at construction and did not become defined before the detection timeout.
C28_AvailableWhenInjectedInTime ==
  sdk.available = "false" => ~sdk.sawOctra

\* C29: after disconnect() completed, and until connect() is called again or
\* a connect or accountsChanged event arrives, the SDK stays disconnected.
C29_StaysDisconnected ==
  sdk.quiet => (~sdk.isConnected /\ sdk.connectedAddress = "none")

\* The entry under key does not parse.
Unparsable(st, key) == Truthy(Get(st, key)) /\ ~JsonParse(Get(st, key)).ok

\* C22: on a set-up wallet whose encryptedWallets entry does not parse, an
\* unlock fails only for its password, and an unlock that passes the password
\* check completes with an empty wallet list, stores it, and leaves the
\* surface on the Welcome screen.
C22_CorruptedStoreOnboards ==
  [][\A s \in Surfaces :
       (Unparsable(store, "encryptedWallets") /\ OnScreen(s, "Unlock") /\ surf'[s] # surf[s]
        /\ surf'[s].phase = "ready")
       => /\ UnlockFails(s) => surf'[s].unlockError = "Invalid password"
          /\ ~UnlockFails(s)
             => /\ UnlockSucceeds(s)
                /\ surf'[s].wallets = <<>>
                /\ store'["wallets"] = Json(<<>>)
                /\ Screen(surf'[s]) = "Welcome"]_vars

\* A surface was unlocked on a corrupted store and shows Welcome.
C22_Witness ==
  \E s \in Surfaces :
    /\ Unparsable(store, "encryptedWallets")
    /\ store["isWalletLocked"] = Str("false")
    /\ Ready(s) /\ ~surf[s].isLocked
    /\ Screen(surf[s]) = "Welcome"

\* The records stored under encryptedWallets.
EncryptedEntries(st) ==
  LET p == JsonParse(Get(st, "encryptedWallets"))
  IN {p.v[i] : i \in 1..Len(p.v)}

\* C23: every record under encryptedWallets holds ciphertext, and on a
\* set-up wallet the decrypted wallets entry exists only while the store is
\* unlocked.
C23_EncryptedAtRest ==
  /\ \A r \in EncryptedEntries(store) : r.encryptedData.c = "enc"
  /\ (IsWalletSetup(store) /\ Truthy(Get(store, "wallets")))
     => Get(store, "isWalletLocked") = Str("false")

\* C24: while the store is locked, no open surface that has received the
\* storage event of the lock still shows the Dashboard.
C24_LockReachesEverySurface ==
  \A s \in Surfaces :
    (/\ Ready(s)
     /\ surf[s].event = "none"
     /\ Get(store, "isWalletLocked") = Str("true"))
    => Screen(surf[s]) # "Dashboard"

\* The set of wallets in a list.
WalletSet(ws) == {ws[i] : i \in 1..Len(ws)}

\* C25: on a set-up, unlocked store, locking and then unlocking with the
\* password yields the set of wallets the store holds now.
C25_LockUnlockRoundTrip ==
  (/\ IsWalletSetup(store)
   /\ Get(store, "isWalletLocked") = Str("false")
   /\ Truthy(Get(store, "wallets")))
  => LET again == UnlockWallets(LockWallets(store), "pw")
     IN /\ again.ok
        /\ WalletSet(again.wallets) = WalletSet(StoredWallets(store))

\* Surface s comes out of a mount unlocked.
MountsUnlocked(s) ==
  /\ surf[s].phase = "loading"
  /\ surf'[s].phase = "ready"
  /\ ~surf'[s].isLocked

\* C26: after a successful unlock or a mount in the unlocked state with a
\* non-empty list, the surface's wallet is the wallet of the stored
\* activeWalletId when it is in the list, and the first of the list otherwise.
C26_ActiveWalletSelection ==
  [][\A s \in Surfaces :
       ((UnlockSucceeds(s) \/ MountsUnlocked(s)) /\ Len(surf'[s].wallets) > 0)
       => surf'[s].wallet =
            SelectActive(surf'[s].wallets, Get(store', "activeWalletId"))]_vars

\* C30: a popup that mounts on a store with an unparsable pending entry
\* goes on with its mount, removes that entry, holds no request of that
\* kind, leaves a parsable entry of the other kind as it is, and, when the
\* mount completes, shows the screen resolved from the store it read
\* without the entry.
C30_UnparsableEntryDropped ==
  [][\A s \in Surfaces,
       p \in {<<"pendingConnectionRequest", "pendingContractRequest", "CONNECTION_RESULT">>,
              <<"pendingContractRequest", "pendingConnectionRequest", "CONTRACT_RESULT">>} :
       /\ (/\ surf[s].phase = "loading"
           /\ surf'[s] # surf[s]
           /\ surf'[s].phase # "closed"
           /\ Unparsable(store, p[1]))
          => /\ surf'[s].phase \in {"ready", "loadingWallets"}
             /\ Get(store', p[1]) = Null
             /\ HeldRequest(s, p[3])' = NoReq
             /\ ~Unparsable(store, p[2])
                => Get(store', p[2]) = Get(store, p[2])
             /\ surf'[s].phase = "ready"
                => Screen(surf'[s]) = ResolvedScreen(Remove(store, p[1]))
       /\ (/\ surf[s].phase = "loadingWallets"
           /\ surf'[s].phase = "ready"
           /\ Unparsable(surf[s].seen, p[1]))
          => /\ HeldRequest(s, p[3])' = NoReq
             /\ Screen(surf'[s]) = ResolvedScreen(Remove(surf[s].seen, p[1]))]_vars

\* A popup's mount has read a store whose connection entry was unparsable:
\* the entry is gone, the popup holds no connection request, it holds the
\* stored contract request, whose entry is as it was, and the mount goes on.
C30_Witness ==
  \E s \in Surfaces :
    /\ surf[s].phase = "loadingWallets"
    /\ Unparsable(surf[s].seen, "pendingConnectionRequest")
    /\ Get(store, "pendingConnectionRequest") = Null
    /\ surf[s].connectionRequest = NoReq
    /\ surf[s].contractRequest # NoReq
    /\ Get(store, "pendingContractRequest")
         = Get(surf[s].seen, "pendingContractRequest")

====
